---------------------------- MODULE Spec2Model ----------------------------
(***************************************************************************)
(* A model of the Whitted-style ray tracer: the AABB slab test, the        *)
(* primitive intersection routines, the median-split BVH builder, the      *)
(* iterative BVH traversal, the bounded shading loop and the row-parallel  *)
(* frame renderer.                                                         *)
(*                                                                         *)
(* Numbers.  Lengths are integers counted in thousandths of a scene unit   *)
(* (Milli), so that the 0.001 self-intersection offset is the integer 1.   *)
(* Ray directions and surface normals are axis-aligned unit vectors with   *)
(* components in {-1, 0, 1}; on the scenes and rays enumerated below every *)
(* quotient and square root the code takes is exact.  The IEEE special     *)
(* values the slab test produces (+inf, -inf, NaN from 0 * inf) and        *)
(* f32::MAX are kept as distinguished values with the IEEE rules for       *)
(* comparison, min, max, subtraction and multiplication.                   *)
(***************************************************************************)
EXTENDS Integers, Sequences, FiniteSets, TLC

\* ------------------------------------------------------------------ f32

\* Thousandths per scene unit: 1.0 is Milli.
Milli == 1000
\* Millionths per scene unit, for the 1e-6 thresholds of Triangle::intersect.
Micro == 1000000
\* f32::MAX: above every finite distance of the model, below INFINITY.
F32_MAX == 2000000000
\* f32::INFINITY.
INFINITY == 2000000001
NEG_INFINITY == -INFINITY
\* The NaN that 0.0 * inf and inf - inf produce.
NAN == 2100000000

IsNaN(a) == a = NAN
IsInf(a) == a = INFINITY \/ a = NEG_INFINITY
Sign(a) == IF a > 0 THEN 1 ELSE IF a < 0 THEN -1 ELSE 0
Abs(a) == IF a < 0 THEN -a ELSE a

\* IEEE comparisons: every comparison with a NaN is false.
FLt(a, b) == ~IsNaN(a) /\ ~IsNaN(b) /\ a < b
FGe(a, b) == ~IsNaN(a) /\ ~IsNaN(b) /\ a >= b
FGt(a, b) == ~IsNaN(a) /\ ~IsNaN(b) /\ a > b
FNe(a, b) == IsNaN(a) \/ IsNaN(b) \/ a # b

\* f32::min / f32::max: a NaN operand is ignored, the other is returned.
FMin(a, b) == IF IsNaN(a) THEN b ELSE IF IsNaN(b) THEN a ELSE IF a < b THEN a ELSE b
FMax(a, b) == IF IsNaN(a) THEN b ELSE IF IsNaN(b) THEN a ELSE IF a > b THEN a ELSE b

\* a - b on f32.
FSub(a, b) ==
    IF IsNaN(a) \/ IsNaN(b) THEN NAN
    ELSE IF IsInf(a) THEN (IF a = b THEN NAN ELSE a)
    ELSE IF IsInf(b) THEN -b
    ELSE a - b

\* a + b on f32.
FAdd(a, b) ==
    IF IsNaN(a) \/ IsNaN(b) THEN NAN
    ELSE IF IsInf(a) THEN (IF a = -b THEN NAN ELSE a)
    ELSE IF IsInf(b) THEN b
    ELSE a + b

\* a * b on f32, b a reciprocal direction component (dimensionless).
FMul(a, b) ==
    IF IsNaN(a) \/ IsNaN(b) THEN NAN
    ELSE IF IsInf(a) \/ IsInf(b)
         THEN (IF a = 0 \/ b = 0 THEN NAN ELSE Sign(a) * Sign(b) * INFINITY)
    ELSE a * b

\* 1.0 / d for a direction component d in {-1, 0, 1}; 1.0 / 0.0 is +inf.
FRecip(d) == IF d = 0 THEN INFINITY ELSE d

\* x * 0.5.
FHalf(a) == IF IsNaN(a) \/ IsInf(a) THEN a ELSE a \div 2

\* f32::sqrt of a length squared (in Milli * Milli): the largest r with
\* r * r <= a, which is the exact root whenever a is a perfect square.
MaxRoot == 46340
RECURSIVE SqrtIn(_, _, _)
SqrtIn(a, lo, hi) ==
    IF lo >= hi THEN lo
    ELSE LET mid == (lo + hi + 1) \div 2
         IN  IF mid * mid <= a THEN SqrtIn(a, mid, hi) ELSE SqrtIn(a, lo, mid - 1)
Sqrt(a) == SqrtIn(a, 0, MaxRoot)

\* ----------------------------------------------------------------- Vec3

Vec3(x, y, z) == [x |-> x, y |-> y, z |-> z]
VAdd(a, o) == Vec3(FAdd(a.x, o.x), FAdd(a.y, o.y), FAdd(a.z, o.z))
VSub(a, o) == Vec3(FSub(a.x, o.x), FSub(a.y, o.y), FSub(a.z, o.z))
VScale(a, s) == Vec3(a.x * s, a.y * s, a.z * s)
VNeg(a) == Vec3(-a.x, -a.y, -a.z)
Dot(a, o) == a.x * o.x + a.y * o.y + a.z * o.z
Cross(a, o) ==
    Vec3(a.y * o.z - a.z * o.y, a.z * o.x - a.x * o.z, a.x * o.y - a.y * o.x)
LenSq(a) == Dot(a, a)
VLen(a) == Sqrt(Dot(a, a))
\* The unit vector of an axis-aligned vector; the zero vector stays zero.
Normalize(a) ==
    LET len == Sqrt(Dot(a, a))
    IN  IF len = 0 THEN Vec3(0, 0, 0)
        ELSE Vec3(a.x \div len, a.y \div len, a.z \div len)
MinVec(a, o) == Vec3(FMin(a.x, o.x), FMin(a.y, o.y), FMin(a.z, o.z))
MaxVec(a, o) == Vec3(FMax(a.x, o.x), FMax(a.y, o.y), FMax(a.z, o.z))

\* ------------------------------------------------------------------ Ray

RayNew(origin, direction) ==
    [origin |-> origin, direction |-> direction,
     inv_direction |-> Vec3(FRecip(direction.x), FRecip(direction.y),
                            FRecip(direction.z))]

\* ----------------------------------------------------------------- Aabb

AabbOf(mn, mx) == [min |-> mn, max |-> mx]
\* A box collapsed on the origin.
AabbZero == AabbOf(Vec3(0, 0, 0), Vec3(0, 0, 0))
\* Aabb::empty(): min = +inf, max = -inf in every component.
AabbEmpty ==
    AabbOf(Vec3(INFINITY, INFINITY, INFINITY),
           Vec3(NEG_INFINITY, NEG_INFINITY, NEG_INFINITY))
AabbUnion(a, other) ==
    AabbOf(MinVec(a.min, other.min), MaxVec(a.max, other.max))
AabbGrow(a, p) == AabbOf(MinVec(a.min, p), MaxVec(a.max, p))
\* The slab test: the entry distance, or F32_MAX for no intersection.
AabbIntersect(a, ray) ==
    LET x1 == FMul(FSub(a.min.x, ray.origin.x), ray.inv_direction.x)
        x2 == FMul(FSub(a.max.x, ray.origin.x), ray.inv_direction.x)
        tmin0 == FMin(x1, x2)
        tmax0 == FMax(x1, x2)
        y1 == FMul(FSub(a.min.y, ray.origin.y), ray.inv_direction.y)
        y2 == FMul(FSub(a.max.y, ray.origin.y), ray.inv_direction.y)
        tmin1 == FMax(tmin0, FMin(y1, y2))
        tmax1 == FMin(tmax0, FMax(y1, y2))
        z1 == FMul(FSub(a.min.z, ray.origin.z), ray.inv_direction.z)
        z2 == FMul(FSub(a.max.z, ray.origin.z), ray.inv_direction.z)
        tmin == FMax(tmin1, FMin(z1, z2))
        tmax == FMin(tmax1, FMax(z1, z2))
    IN  IF FGe(tmax, FMax(tmin, 0)) THEN tmin ELSE F32_MAX

\* -------------------------------------------------------------- objects

\* Option<T>: None is the empty sequence, Some(v) the one-element sequence.
None == <<>>
Some(v) == <<v>>
IsSome(o) == o # <<>>
Unwrap(o) == o[1]

\* The 0.001 self-intersection guard of Sphere::intersect, in Milli.
T_MIN == 1

Sphere(center, radius, mat) ==
    [kind |-> "Sphere", center |-> center, radius |-> radius, mat |-> mat]
Triangle(v0, v1, v2, mat) ==
    [kind |-> "Triangle", v0 |-> v0, v1 |-> v1, v2 |-> v2, mat |-> mat]

SphereAabb(s) ==
    LET r_vec == Vec3(s.radius, s.radius, s.radius)
    IN  AabbOf(VSub(s.center, r_vec), VAdd(s.center, r_vec))

\* Only the nearer root (-b - sqrt(disc)) / 2a is ever taken.
SphereIntersect(s, ray) ==
    LET oc == VSub(ray.origin, s.center)
        a == Dot(ray.direction, ray.direction)
        b == 2 * Dot(oc, ray.direction)
        c == Dot(oc, oc) - s.radius * s.radius
        discriminant == b * b - 4 * a * c
        t == (-b - Sqrt(discriminant)) \div (2 * a)
        hit_point == VAdd(ray.origin, VScale(ray.direction, t))
        normal == Normalize(VSub(hit_point, s.center))
    IN  IF discriminant < 0 THEN None
        ELSE IF t < T_MIN THEN None
        ELSE Some([t |-> t, normal |-> normal, mat |-> s.mat])

TriangleAabb(tr) == AabbGrow(AabbGrow(AabbGrow(AabbEmpty, tr.v0), tr.v1), tr.v2)

\* Moeller-Trumbore.  f = 1 / a is kept as the divisor a: u, v and t are the
\* quotients un / a, vn / a and tn / a, compared after multiplying through
\* by |a|.  The thresholds: 1e-6 square units is Milli * Milli / Micro, and
\* t > 1e-6 is Milli * t > 1 for t in Milli.
TriangleIntersect(tr, ray) ==
    LET edge1 == VSub(tr.v1, tr.v0)
        edge2 == VSub(tr.v2, tr.v0)
        h == Cross(ray.direction, edge2)
        a == Dot(edge1, h)
        s == VSub(ray.origin, tr.v0)
        un == Dot(s, h) * Sign(a)
        q == Cross(s, edge1)
        vn == Dot(ray.direction, q) * Sign(a)
        tn == Dot(edge2, q) * Sign(a)
        t == tn \div Abs(a)
        n0 == Normalize(Cross(edge1, edge2))
        normal == IF Dot(n0, ray.direction) > 0 THEN VNeg(n0) ELSE n0
    IN  IF Abs(a) < (Milli * Milli) \div Micro THEN None
        ELSE IF un < 0 \/ un > Abs(a) THEN None
        ELSE IF vn < 0 \/ un + vn > Abs(a) THEN None
        ELSE IF Milli * t > 1 THEN Some([t |-> t, normal |-> normal, mat |-> tr.mat])
        ELSE None

ObjectAabb(obj) ==
    IF obj.kind = "Sphere" THEN SphereAabb(obj) ELSE TriangleAabb(obj)
ObjectIntersect(obj, ray) ==
    IF obj.kind = "Sphere" THEN SphereIntersect(obj, ray)
    ELSE TriangleIntersect(obj, ray)

Intersection(point, normal, material) ==
    [point |-> point, normal |-> normal, material |-> material]

\* ------------------------------------------------------------ Bvh::build

BvhNode(aabb, left_first, count) ==
    [aabb |-> aabb, left_first |-> left_first, count |-> count]
BvhPrimitive(index, aabb, center) ==
    [index |-> index, aabb |-> aabb, center |-> center]

\* Sequences are indexed from 1; the code's indices are kept from 0.
At(seq, i) == seq[i + 1]
SetAt(seq, i, v) == [seq EXCEPT ![i + 1] = v]
InRange(seq, i) == i >= 0 /\ i < Len(seq)

\* The centroid coordinate the comparator of sort_by reads.
AxisVal(p, axis) ==
    IF axis = 0 THEN p.center.x ELSE IF axis = 1 THEN p.center.y ELSE p.center.z

\* val_a.partial_cmp(&val_b).unwrap_or(Ordering::Equal)
Cmp(a, b, axis) ==
    IF FLt(AxisVal(a, axis), AxisVal(b, axis)) THEN "Less"
    ELSE IF FGt(AxisVal(a, axis), AxisVal(b, axis)) THEN "Greater"
    ELSE "Equal"

\* x may be placed after the first p elements of `sorted`, in any order with
\* the elements it compares Equal to.
FitsAmongEqual(sorted, x, p, axis) ==
    /\ \A i \in 1..p : Cmp(sorted[i], x, axis) # "Greater"
    /\ \A i \in (p + 1)..Len(sorted) : Cmp(sorted[i], x, axis) # "Less"

\* x, which followed every element of `sorted` in the slice, may be placed
\* after the first p of them: sort_by is stable, so x stays behind the
\* elements it compares Equal to.
Fits(sorted, x, p, axis) ==
    /\ \A i \in 1..p : Cmp(sorted[i], x, axis) # "Greater"
    /\ \A i \in (p + 1)..Len(sorted) : Cmp(sorted[i], x, axis) = "Greater"

\* The outcomes of slice.sort_by(comparator on the axis).
RECURSIVE SortResults(_, _)
SortResults(slice, axis) ==
    IF Len(slice) = 0 THEN {<<>>}
    ELSE LET n == Len(slice)
             x == slice[n]
         IN  UNION {
               {SubSeq(sorted, 1, p) \o <<x>> \o SubSeq(sorted, p + 1, n - 1) :
                    p \in {q \in 0..(n - 1) : Fits(sorted, x, q, axis)}} :
               sorted \in SortResults(SubSeq(slice, 1, n - 1), axis)}

\* The union with the loop started at 1: primitives[start] is left out.
RECURSIVE RangeAabbFromOne(_, _, _)
RangeAabbFromOne(primitives, start, count) ==
    IF count <= 1 THEN AabbEmpty
    ELSE AabbUnion(RangeAabbFromOne(primitives, start, count - 1),
                   At(primitives, start + count - 1).aabb)

\* The union of the boxes of primitives[start .. start + count).
RECURSIVE RangeAabb(_, _, _)
RangeAabb(primitives, start, count) ==
    IF count = 0 THEN AabbEmpty
    ELSE AabbUnion(RangeAabb(primitives, start, count - 1),
                   At(primitives, start + count - 1).aabb)

\* The axis of greatest extent, as the code picks it.
SplitAxis(aabb) ==
    LET extent == VSub(aabb.max, aabb.min)
    IN  IF FGt(extent.x, extent.y) /\ FGt(extent.x, extent.z) THEN 0
        ELSE IF FGt(extent.y, extent.z) THEN 1
        ELSE 2

\* CopyIndices reading primitives[i] instead of primitives[start + i].
CopyIndicesFromZero(global_indices, primitives, start, count) ==
    [k \in 1..Len(global_indices) |->
        IF k - 1 >= start /\ k - 1 < start + count
        THEN primitives[k - start].index ELSE global_indices[k]]

\* global_indices[start + i] = primitives[start + i].index for i in 0..count.
CopyIndices(global_indices, primitives, start, count) ==
    [k \in 1..Len(global_indices) |->
        IF k - 1 >= start /\ k - 1 < start + count
        THEN primitives[k].index ELSE global_indices[k]]

\* primitives with the range [start, start + count) replaced by `sorted`.
ReplaceRange(primitives, start, count, sorted) ==
    SubSeq(primitives, 1, start) \o sorted
    \o SubSeq(primitives, start + count + 1, Len(primitives))

\* A range of `count` primitives is a leaf.
IsLeafRange(count) == count <= 2
\* The cut rounded up: the larger half goes left.
SplitMidRoundedUp(count) == (count + 1) \div 2

\* Where a range of `count` primitives is cut.
SplitMid(count) == count \div 2

\* Bvh::split on the state st = [nodes, global_indices, primitives]: the
\* states it can end in, one for each outcome of the sorts.
RECURSIVE Split(_, _, _, _)
Split(st, node_idx, start, count) ==
    LET aabb == RangeAabb(st.primitives, start, count)
        nodes0 == SetAt(st.nodes, node_idx, BvhNode(aabb, start, count))
    IN  IF IsLeafRange(count)
        THEN {[st EXCEPT !.nodes = nodes0,
                         !.global_indices =
                             CopyIndices(st.global_indices, st.primitives, start, count)]}
        ELSE
          LET axis == SplitAxis(aabb)
              mid == SplitMid(count)
              left_child_idx == Len(nodes0)
              right_child_idx == left_child_idx + 1
              nodes1 == SetAt(nodes0, node_idx, BvhNode(aabb, left_child_idx, 0))
              nodes2 == Append(Append(nodes1, BvhNode(AabbEmpty, 0, 0)),
                               BvhNode(AabbEmpty, 0, 0))
              slice == SubSeq(st.primitives, start + 1, start + count)
          IN  UNION {
                UNION {Split(st2, right_child_idx, start + mid, count - mid) :
                         st2 \in Split([st EXCEPT
                                          !.nodes = nodes2,
                                          !.primitives =
                                              ReplaceRange(st.primitives, start, count, sorted)],
                                       left_child_idx, start, mid)} :
                sorted \in SortResults(slice, axis)}

\* Bvh::build: the (node array, permutation array) pairs it can return.
BvhBuild(objs) ==
    LET primitives ==
            [i \in 1..Len(objs) |->
                LET aabb == ObjectAabb(objs[i])
                    sum == VAdd(aabb.min, aabb.max)
                IN  BvhPrimitive(i - 1, aabb,
                                 Vec3(FHalf(sum.x), FHalf(sum.y), FHalf(sum.z)))]
        st0 == [nodes |-> <<BvhNode(AabbEmpty, 0, 0)>>,
                global_indices |-> [i \in 1..Len(objs) |-> 0],
                primitives |-> primitives]
    IN  {[nodes |-> st.nodes, prim_indices |-> st.global_indices] :
            st \in Split(st0, 0, 0, Len(objs))}

\* -------------------------------------------------------- Bvh::intersect

\* The capacity of the traversal stack.
STACK_SIZE == 64

\* `if t < closest_t`: only a strictly closer hit replaces the running one.
Closer(t, closest_t) == FLt(t, closest_t)
\* `if dist_box < closest_t`: the node is entered, otherwise it is pruned.
Enters(dist_box, closest_t) == FLt(dist_box, closest_t)
\* `dist != f32::MAX`: the child's box is reachable.
Reachable(dist) == FNe(dist, F32_MAX)
\* The comparison turned round: the left child is pushed last when it is the
\* farther one.
LeftFarther(dist_l, dist_r) == FGt(dist_l, dist_r)

\* `if dist_l < dist_r`: the left child is the nearer one and is pushed last.
LeftNearer(dist_l, dist_r) == FLt(dist_l, dist_r)

\* The running closest hit after one more primitive was tested.
TestObject(c, obj, ray) ==
    LET r == ObjectIntersect(obj, ray)
    IN  IF IsSome(r) /\ Closer(Unwrap(r).t, c.closest_t)
        THEN [c EXCEPT !.closest_t = Unwrap(r).t,
                       !.closest_hit =
                           Some(Intersection(
                               VAdd(ray.origin, VScale(ray.direction, Unwrap(r).t)),
                               Unwrap(r).normal, Unwrap(r).mat))]
        ELSE c

\* The leaf's loop `for i in 0..node.count` from iteration i on; an index out
\* of bounds panics.
RECURSIVE LeafScan(_, _, _, _, _, _)
LeafScan(c, node, i, bvh, objs, ray) ==
    IF i >= node.count THEN c
    ELSE IF ~InRange(bvh.prim_indices, node.left_first + i) THEN [c EXCEPT !.pc = "panic"]
    ELSE LET obj_idx == At(bvh.prim_indices, node.left_first + i)
         IN  IF ~InRange(objs, obj_idx) THEN [c EXCEPT !.pc = "panic"]
             ELSE LeafScan(TestObject(c, At(objs, obj_idx), ray),
                           node, i + 1, bvh, objs, ray)

\* Pop without `stack_ptr -= 1`: the slot just processed stays on top.
PopKeepsSlot(c) ==
    IF c.stack_ptr = 0 THEN [c EXCEPT !.pc = "done"] ELSE c

\* `if stack_ptr == 0 { break; } stack_ptr -= 1;`
Pop(c) ==
    IF c.stack_ptr = 0 THEN [c EXCEPT !.pc = "done"]
    ELSE [c EXCEPT !.stack_ptr = c.stack_ptr - 1]

\* PushBoth without `stack_ptr += 1`: the second write lands on the first.
PushBothSameSlot(c, first, second) ==
    [c EXCEPT !.stack = SetAt(c.stack, c.stack_ptr, second)]

\* PushBoth with `stack_ptr += 1` moved before the first write: the node just
\* processed stays in its slot and the children land one slot higher.
PushBothSkipsSlot(c, first, second) ==
    IF c.stack_ptr + 2 >= STACK_SIZE THEN [c EXCEPT !.pc = "panic"]
    ELSE [c EXCEPT !.stack = SetAt(SetAt(c.stack, c.stack_ptr + 1, first),
                                   c.stack_ptr + 2, second),
                   !.stack_ptr = c.stack_ptr + 2]

\* Both children reachable: the current slot takes `first`, the next slot
\* `second`, which is processed next.  Writing slot STACK_SIZE panics.
PushBoth(c, first, second) ==
    IF c.stack_ptr + 1 >= STACK_SIZE THEN [c EXCEPT !.pc = "panic"]
    ELSE [c EXCEPT !.stack = SetAt(SetAt(c.stack, c.stack_ptr, first),
                                   c.stack_ptr + 1, second),
                   !.stack_ptr = c.stack_ptr + 1]

\* The state of a query at its first iteration.
IntersectInit ==
    [closest_t |-> F32_MAX, closest_hit |-> None,
     stack |-> [k \in 1..STACK_SIZE |-> 0], stack_ptr |-> 0, pc |-> "loop"]

\* One iteration of `while stack_ptr < 64`.  far_first is FALSE in the code;
\* TRUE visits two reachable children in the opposite order.
LoopBody(c, bvh, objs, ray, far_first) ==
    LET node_idx == At(c.stack, c.stack_ptr)
    IN
    IF ~InRange(bvh.nodes, node_idx) THEN [c EXCEPT !.pc = "panic"]
    ELSE
    LET node == At(bvh.nodes, node_idx)
        dist_box == AabbIntersect(node.aabb, ray)
    IN
    IF ~Enters(dist_box, c.closest_t) THEN Pop(c)
    ELSE IF node.count > 0
    THEN LET c1 == LeafScan(c, node, 0, bvh, objs, ray)
         IN  IF c1.pc = "panic" THEN c1 ELSE Pop(c1)
    ELSE
    LET left_idx == node.left_first
        right_idx == left_idx + 1
    IN
    IF ~InRange(bvh.nodes, left_idx) \/ ~InRange(bvh.nodes, right_idx)
    THEN [c EXCEPT !.pc = "panic"]
    ELSE
    LET dist_l == AabbIntersect(At(bvh.nodes, left_idx).aabb, ray)
        dist_r == AabbIntersect(At(bvh.nodes, right_idx).aabb, ray)
    IN
    IF Reachable(dist_l) /\ Reachable(dist_r)
    THEN IF LeftNearer(dist_l, dist_r) # far_first
         THEN PushBoth(c, right_idx, left_idx)
         ELSE PushBoth(c, left_idx, right_idx)
    ELSE IF Reachable(dist_l) THEN [c EXCEPT !.stack = SetAt(c.stack, c.stack_ptr, left_idx)]
    ELSE IF Reachable(dist_r) THEN [c EXCEPT !.stack = SetAt(c.stack, c.stack_ptr, right_idx)]
    ELSE Pop(c)

\* ------------------------------------------------ get_closest_intersection

\* The brute-force scan of objects[0 .. n) in index order.
RECURSIVE ScanObjects(_, _, _)
ScanObjects(objs, n, ray) ==
    IF n = 0 THEN [closest_t |-> F32_MAX, closest_hit |-> None]
    ELSE TestObject(ScanObjects(objs, n - 1, ray), objs[n], ray)
GetClosestIntersection(ray, objs) == ScanObjects(objs, Len(objs), ray).closest_hit

\* ------------------------------------------------- Vec3 colours (main.rs)

\* The product of two f32 kept in thousandths.
MulM(a, b) == (a * b) \div Milli
\* Vec3::mul_vec on colours in thousandths.
MulVec(a, o) == Vec3(MulM(a.x, o.x), MulM(a.y, o.y), MulM(a.z, o.z))
\* Vec3 * f32 with the scalar in thousandths.
VScaleM(a, s) == Vec3(MulM(a.x, s), MulM(a.y, s), MulM(a.z, s))

\* GammaThreshold[y]: the least colour value, in thousandths, for which
\* (c.powf(1.0 / GAMMA).clamp(0.0, 1.0) * 255.0) as u32 is at least y.
GammaThreshold ==
    << 1, 1, 1, 1, 1, 1, 1, 1, 1, 1, 1, 2, 2, 2, 2,
       3, 3, 3, 4, 4, 5, 5, 6, 6, 7, 7, 8, 8, 9, 10,
       10, 11, 12, 12, 13, 14, 15, 16, 17, 17, 18, 19, 20, 21, 23,
       24, 25, 26, 27, 28, 29, 31, 32, 33, 35, 36, 38, 39, 40, 42,
       43, 45, 47, 48, 50, 52, 53, 55, 57, 59, 61, 62, 64, 66, 68,
       70, 72, 74, 76, 79, 81, 83, 85, 87, 90, 92, 94, 97, 99, 102,
       104, 107, 109, 112, 114, 117, 120, 122, 125, 128, 131, 134, 137, 140, 142,
       145, 148, 152, 155, 158, 161, 164, 167, 171, 174, 177, 181, 184, 187, 191,
       194, 198, 202, 205, 209, 213, 216, 220, 224, 228, 231, 235, 239, 243, 247,
       251, 255, 260, 264, 268, 272, 276, 281, 285, 289, 294, 298, 303, 307, 312,
       316, 321, 326, 330, 335, 340, 345, 349, 354, 359, 364, 369, 374, 379, 384,
       389, 395, 400, 405, 410, 416, 421, 426, 432, 437, 443, 448, 454, 460, 465,
       471, 477, 482, 488, 494, 500, 506, 512, 518, 524, 530, 536, 542, 548, 555,
       561, 567, 574, 580, 586, 593, 599, 606, 613, 619, 626, 633, 639, 646, 653,
       660, 667, 674, 681, 688, 695, 702, 709, 716, 723, 730, 738, 745, 752, 760,
       767, 775, 782, 790, 797, 805, 813, 820, 828, 836, 844, 852, 860, 868, 876,
       884, 892, 900, 908, 916, 924, 933, 941, 949, 958, 966, 975, 983, 992, 1000 >>

\* (c.powf(1.0 / GAMMA).clamp(0.0, 1.0) * 255.0) as u32
GammaByte(c) ==
    IF c >= Milli THEN 255
    ELSE Cardinality({y \in 1..255 : GammaThreshold[y] <= c})

\* Vec3::to_u32_gamma: the four bytes of the packed word, alpha first.
ToU32Gamma(c) == <<255, GammaByte(c.x), GammaByte(c.y), GammaByte(c.z)>>

\* ----------------------------------------------- compute_pixel_color (main.rs)

MAX_BOUNCES == 4

\* The 0.001 by which reflected and shadow rays leave the surface, in Milli.
RAY_OFFSET == 1

\* Ray { origin, direction } of main.rs.
Ray(origin, direction) == [origin |-> origin, direction |-> direction]

\* Material { albedo, emission, reflectivity, checkered } of main.rs; colours
\* and reflectivity in thousandths.
SurfaceMaterial(albedo, emission, reflectivity, checkered) ==
    [albedo |-> albedo, emission |-> emission, reflectivity |-> reflectivity,
     checkered |-> checkered]

PointLight(position, color, intensity) ==
    [position |-> position, color |-> color, intensity |-> intensity]

\* v.floor() as i32, for v in Milli.
FloorI32(v) == v \div Milli

\* a % b on i32: the remainder takes the sign of the dividend.
Rem(a, b) == IF a >= 0 THEN a % b ELSE -((-a) % b)

\* (x + z) % 2 == 1
IsOddTileRemOne(x, z) == Rem(x + z, 2) = 1

\* (x + z) % 2 != 0
IsOddTile(x, z) == Rem(x + z, 2) # 0

\* Vec3::new(0.1, 0.1, 0.1)
DarkAlbedo == Vec3(100, 100, 100)

\* The albedo used at a hit: the checkerboard override of the material's.
Albedo(hit) ==
    IF hit.material.checkered
       /\ IsOddTile(FloorI32(MulM(hit.point.x, Milli)),
                    FloorI32(MulM(hit.point.z, Milli)))
    THEN DarkAlbedo
    ELSE hit.material.albedo

\* dist_to_blocker_sq < dist_sq
BlockedByAny(dist_to_blocker_sq, dist_sq, shadow_hit) ==
    dist_to_blocker_sq < dist_sq

\* dist_to_blocker_sq < dist_sq && shadow_hit.material.emission.len() == 0.0
Blocked(dist_to_blocker_sq, dist_sq, shadow_hit) ==
    /\ dist_to_blocker_sq < dist_sq
    /\ VLen(shadow_hit.material.emission) = 0

\* 1.0 / dist_sq in thousandths, for dist_sq in square Milli.
Attenuation(dist_sq) == (Milli * Milli * Milli) \div dist_sq

\* (0.5_f32).powi(bounce) in thousandths.
RECURSIVE PowHalf(_)
PowHalf(n) == IF n = 0 THEN Milli ELSE PowHalf(n - 1) \div 2

\* Vec3::new(0.05, 0.05, 0.1)
Background == Vec3(50, 50, 100)

Black == Vec3(0, 0, 0)

\* The shadow ray of a hit: from the hit point moved off the surface along
\* the normal, towards the light.  light_vec * (1.0 / dist) is the unit
\* vector of light_vec.
ShadowRay(h, light_in) ==
    Ray(VAdd(h.point, VScale(h.normal, RAY_OFFSET)),
        Normalize(VSub(light_in.position, h.point)))

\* in_shadow, from what the shadow ray met.
InShadow(shadow_found, shadow_ray, h, light_in) ==
    /\ IsSome(shadow_found)
    /\ Blocked(LenSq(VSub(Unwrap(shadow_found).point, shadow_ray.origin)),
               LenSq(VSub(light_in.position, h.point)),
               Unwrap(shadow_found))

\* hit.normal.dot(light_dir).max(0.0)
NDotL(h, light_dir) ==
    IF Dot(h.normal, light_dir) > 0 THEN Dot(h.normal, light_dir) ELSE 0

\* light.color * light.intensity * attenuation
IncomingLight(h, light_in) ==
    VScaleM(VScaleM(light_in.color, light_in.intensity),
            Attenuation(LenSq(VSub(light_in.position, h.point))))

\* throughput.mul_vec(reflected_light) * diffuse_factor
DirectTerm(h, albedo_used, light_dir, throughput_in, light_in) ==
    VScaleM(MulVec(throughput_in,
                   VScale(MulVec(albedo_used, IncomingLight(h, light_in)),
                          NDotL(h, light_dir))),
            Milli - h.material.reflectivity)

\* The reflected ray: ray.direction - 2.0 * ray.direction.dot(normal) * normal,
\* normalized, from the hit point moved off the surface.
Reflected(ray_in, h) ==
    Ray(VAdd(h.point, VScale(h.normal, RAY_OFFSET)),
        Normalize(VSub(ray_in.direction,
                       VScale(h.normal, 2 * Dot(ray_in.direction, h.normal)))))

\* What an iteration that hit h leaves: tested is diffuse_factor > 0.0, and
\* in_shadow_now and direct_term are what the shadow test and the lighting
\* give when they are run.
ShadeHit(h, albedo_used, tested, shadow_found, in_shadow_now, direct_term, emitted, ray_in, throughput_in) ==
    [hit |-> Some(h),
     albedo |-> albedo_used,
     shadow_tested |-> tested,
     shadow_hit |-> IF tested THEN shadow_found ELSE None,
     in_shadow |-> tested /\ in_shadow_now,
     direct |-> IF tested /\ ~in_shadow_now THEN direct_term ELSE Black,
     background |-> Black,
     calls |-> IF tested THEN 2 ELSE 1,
     final_color |->
         IF tested /\ ~in_shadow_now THEN VAdd(emitted, direct_term) ELSE emitted,
     throughput |->
         IF h.material.reflectivity > 0
         THEN VScaleM(MulVec(throughput_in, albedo_used), h.material.reflectivity)
         ELSE throughput_in,
     ray |-> IF h.material.reflectivity > 0 THEN Reflected(ray_in, h) ELSE ray_in,
     continues |-> h.material.reflectivity > 0]

\* The shadow test and the lighting of a hit, given its shadow ray and what
\* the shadow ray met.
ShadeLit(h, shadow_ray, shadow_found, ray_in, final_in, throughput_in, light_in) ==
    ShadeHit(h, Albedo(h),
             Milli - h.material.reflectivity > 0,
             shadow_found,
             InShadow(shadow_found, shadow_ray, h, light_in),
             DirectTerm(h, Albedo(h), shadow_ray.direction, throughput_in, light_in),
             VAdd(final_in, MulVec(throughput_in, h.material.emission)),
             ray_in, throughput_in)

\* What an iteration that missed leaves: the background term is added.
ShadeMiss(ray_in, final_in, throughput_in, bounce_in) ==
    [hit |-> None,
     albedo |-> None,
     shadow_tested |-> FALSE,
     shadow_hit |-> None,
     in_shadow |-> FALSE,
     direct |-> Black,
     background |-> MulVec(throughput_in, VScaleM(Background, PowHalf(bounce_in))),
     calls |-> 1,
     final_color |->
         VAdd(final_in,
              MulVec(throughput_in, VScaleM(Background, PowHalf(bounce_in)))),
     throughput |-> throughput_in,
     ray |-> ray_in,
     continues |-> FALSE]

\* The iteration, from what its nearest-hit query found.
ShadeFound(found, ray_in, final_in, throughput_in, bounce_in, objs, light_in) ==
    IF IsSome(found)
    THEN ShadeLit(Unwrap(found), ShadowRay(Unwrap(found), light_in),
                  GetClosestIntersection(ShadowRay(Unwrap(found), light_in), objs),
                  ray_in, final_in, throughput_in, light_in)
    ELSE ShadeMiss(ray_in, final_in, throughput_in, bounce_in)

\* One iteration of the bounce loop, from the ray, the accumulated colour and
\* the throughput it starts with.  Beside the values the iteration leaves
\* (final_color, throughput, ray, continues) the record keeps what the
\* iteration saw: the hit, whether the shadow ray was cast, what it hit,
\* in_shadow, the direct term added, and the number of
\* get_closest_intersection calls.
Shade(ray_in, final_in, throughput_in, bounce_in, objs, light_in) ==
    ShadeFound(GetClosestIntersection(ray_in, objs),
               ray_in, final_in, throughput_in, bounce_in, objs, light_in)

\* for bounce in 0..=MAX_BOUNCES
LoopContinuesInclusive(bounce_in) == bounce_in <= MAX_BOUNCES

\* for bounce in 0..MAX_BOUNCES
LoopContinues(bounce_in) == bounce_in < MAX_BOUNCES

\* ---------------------------------------------------------------- scenes

\* The longest primitive list enumerated.
MaxPrims == 5

\* A point of the scene grid: the grid step is 10 thousandths of a unit.
P(x, y, z) == Vec3(10 * x, 10 * y, 10 * z)

\* Material { albedo, emission, specular, shininess, checkered }; colours in
\* thousandths.
Material(albedo, emission, specular, shininess, checkered) ==
    [albedo |-> albedo, emission |-> emission, specular |-> specular,
     shininess |-> shininess, checkered |-> checkered]
MatMirror == Material(Vec3(1000, 1000, 1000), Vec3(0, 0, 0), 900, 64, FALSE)
MatRed == Material(Vec3(900, 100, 100), Vec3(0, 0, 0), 100, 8, FALSE)
MatChecker == Material(Vec3(900, 900, 900), Vec3(0, 0, 0), 500, 32, TRUE)
MatBulb == Material(Vec3(0, 0, 0), Vec3(1000, 1000, 1000), 0, 0, FALSE)

\* The primitives scenes are drawn from: unit spheres (radius one grid step)
\* on the three axes and a floor triangle touching the first sphere.
ObjectPool ==
    { Sphere(P(0, 0, 0), 10, MatMirror),
      Sphere(P(4, 0, 0), 10, MatRed),
      Sphere(P(0, 4, 2), 10, MatBulb),
      Triangle(P(-2, -2, -1), P(2, -2, -1), P(-2, 2, -1), MatChecker) }

RECURSIVE SeqsUpTo(_, _)
SeqsUpTo(S, n) ==
    IF n = 0 THEN {<<>>}
    ELSE LET shorter == SeqsUpTo(S, n - 1)
         IN  shorter \cup {Append(q, e) : q \in {r \in shorter : Len(r) = n - 1}, e \in S}

\* Every primitive list of at most MaxPrims pool primitives, in every order.
Scenes == SeqsUpTo(ObjectPool, MaxPrims)

\* Axis-aligned rays: head-on, tangent, grazing a box face, starting inside
\* a sphere, and missing everything.
Rays ==
    { RayNew(P(0, 0, -5), Vec3(0, 0, 1)),
      RayNew(P(1, 0, -5), Vec3(0, 0, 1)),
      RayNew(P(-1, -1, -5), Vec3(0, 0, 1)),
      RayNew(P(2, 0, -5), Vec3(0, 0, 1)),
      RayNew(P(0, 0, 9), Vec3(0, 0, -1)),
      RayNew(P(0, 0, 0), Vec3(0, 0, 1)),
      RayNew(P(-5, 0, 0), Vec3(1, 0, 0)),
      RayNew(P(9, 0, 0), Vec3(-1, 0, 0)),
      RayNew(P(0, 9, 2), Vec3(0, -1, 0)),
      RayNew(P(0, -9, 0), Vec3(0, 1, 0)) }

\* ------------------------------------------------- scenes lit by a light

\* The most objects in a lit scene.
MaxLit == 4

\* A point of the z axis, in Milli.
OnAxis(z) == Vec3(0, 0, z)

\* The materials of init_scene, a perfect mirror and a matte white.
MatMirrorLit == SurfaceMaterial(Vec3(1000, 1000, 1000), Black, 900, FALSE)
MatRedMatte == SurfaceMaterial(Vec3(900, 100, 100), Black, 100, FALSE)
MatCheckerLit == SurfaceMaterial(Vec3(900, 900, 900), Black, 500, TRUE)
MatBulbLit == SurfaceMaterial(Black, Vec3(3856, 1352, 4416), 0, FALSE)
MatPerfectMirror == SurfaceMaterial(Vec3(1000, 1000, 1000), Black, 1000, FALSE)
MatChalk == SurfaceMaterial(Vec3(900, 900, 900), Black, 0, FALSE)

\* A small triangle across the z axis at height z.
Plate(z, mat) ==
    Triangle(Vec3(-50, -50, z), Vec3(150, -50, z), Vec3(-50, 150, z), mat)

\* The objects of the lit scenes, all met by the z axis, in list order.
LitPool ==
    << Sphere(OnAxis(-9000), 200, MatBulbLit),
       Sphere(OnAxis(0), 1000, MatMirrorLit),
       Sphere(OnAxis(-6000), 1000, MatRedMatte),
       Plate(3000, MatCheckerLit),
       Plate(-2500, MatPerfectMirror),
       Sphere(OnAxis(6000), 500, MatChalk) >>

\* The sub-list of LitPool at the positions in S.
RECURSIVE Pick(_, _)
Pick(S, n) ==
    IF n = 0 THEN <<>>
    ELSE IF n \in S THEN Append(Pick(S, n - 1), LitPool[n])
    ELSE Pick(S, n - 1)

LitScenes ==
    {Pick(S, Len(LitPool)) :
        S \in {T \in SUBSET (1..Len(LitPool)) : Cardinality(T) <= MaxLit}}

\* The light of init_scene moved onto the axis, at either end; intensity 8.
Lights ==
    { PointLight(OnAxis(-9000), Vec3(482, 169, 552), 8000),
      PointLight(OnAxis(9000), Vec3(482, 169, 552), 8000) }

\* Primary rays along the axis.
PrimaryRays ==
    { Ray(OnAxis(-4000), Vec3(0, 0, 1)),
      Ray(OnAxis(-4000), Vec3(0, 0, -1)),
      Ray(OnAxis(2000), Vec3(0, 0, 1)),
      Ray(OnAxis(2000), Vec3(0, 0, -1)),
      Ray(OnAxis(4500), Vec3(0, 0, 1)),
      Ray(OnAxis(-8000), Vec3(0, 0, 1)) }

\* ------------------------------------------------------- checkerboard hits

\* Tiles -MaxTile .. MaxTile - 1 are enumerated on each axis.
MaxTile == 2

\* Coordinates at, just after and just before each tile boundary.
TileCoords ==
    {n * Milli + off : n \in (-MaxTile)..(MaxTile - 1), off \in {0, 1, 500, 999}}

CheckerMaterials ==
    { MatCheckerLit, MatRedMatte,
      SurfaceMaterial(Vec3(900, 100, 100), Black, 0, TRUE) }

CheckerHits ==
    {Intersection(Vec3(x, 0, z), Vec3(0, 1, 0), m) :
        x \in TileCoords, z \in TileCoords, m \in CheckerMaterials}

\* -------------------------------------------------------------- the boxes

\* Finite box coordinates range over -MaxCoord .. MaxCoord units.
MaxCoord == 1

Coords ==
    {NEG_INFINITY, INFINITY} \cup {c * Milli : c \in (-MaxCoord)..MaxCoord}

Corners == {Vec3(x, y, z) : x \in Coords, y \in Coords, z \in Coords}

Boxes == {AabbOf(mn, mx) : mn \in Corners, mx \in Corners}

\* ------------------------------------------------------- render_frame

\* The framebuffer is BUFFER_WIDTH x BUFFER_HEIGHT slots (1536 x 864 in the
\* program).
BUFFER_WIDTH == 4
BUFFER_HEIGHT == 3

Camera(pos, yaw, pitch) == [pos |-> pos, yaw |-> yaw, pitch |-> pitch]

\* cos and sin of a whole number of quarter turns, given in degrees.
CosDeg(a) ==
    CASE a % 360 = 0 -> 1 [] a % 360 = 90 -> 0 [] a % 360 = 180 -> -1
      [] a % 360 = 270 -> 0
SinDeg(a) ==
    CASE a % 360 = 0 -> 0 [] a % 360 = 90 -> 1 [] a % 360 = 180 -> 0
      [] a % 360 = 270 -> -1

\* Camera::get_vectors: forward, right, up.
GetVectors(cam) ==
    LET forward == Normalize(Vec3(CosDeg(cam.yaw) * CosDeg(cam.pitch),
                                  SinDeg(cam.pitch),
                                  SinDeg(cam.yaw) * CosDeg(cam.pitch)))
        right == Normalize(Cross(forward, Vec3(0, 1, 0)))
        up == Normalize(Cross(right, forward))
    IN  <<forward, right, up>>

\* (90.0f32.to_radians() / 2.0).tan(), in thousandths.
FovScale == Milli

\* Vec3::normalize of a direction in thousandths, to length Milli.
NormalizeM(v) ==
    LET len == VLen(v)
    IN  IF len = 0 THEN Black
        ELSE Vec3((v.x * Milli) \div len, (v.y * Milli) \div len,
                  (v.z * Milli) \div len)

\* The primary ray of pixel (i, j); its direction is in thousandths.
PrimaryRay(i, j, cam) ==
    LET aspect_ratio == (BUFFER_WIDTH * Milli) \div BUFFER_HEIGHT
        basis == GetVectors(cam)
        ndc_x == MulM(MulM((2 * (i * Milli + 500)) \div BUFFER_WIDTH - Milli,
                           aspect_ratio), FovScale)
        ndc_y == MulM(Milli - (2 * (j * Milli + 500)) \div BUFFER_HEIGHT, FovScale)
        direction ==
            NormalizeM(VAdd(VAdd(VScale(basis[1], Milli), VScale(basis[2], ndc_x)),
                            VScale(basis[3], ndc_y)))
    IN  Ray(cam.pos, direction)

\* The word compute_pixel_color returns for a primary ray.  Primary rays leave
\* the axes, where the integer arithmetic of Shade does not follow them: the
\* word is kept as the call that computes it, the ray, the scene and the
\* light it reads.
ComputePixelColor(primary, objs, light_in) ==
    [ray |-> primary, objects |-> objs, light |-> light_in]

\* buffer.par_chunks_mut(BUFFER_WIDTH): the number of chunks, and the first
\* slot and the length of chunk j.
NumChunks(len) == (len + BUFFER_WIDTH - 1) \div BUFFER_WIDTH

\* Chunks one slot short of a row apart.
ChunkStartOverlapping(j) == j * (BUFFER_WIDTH - 1)

ChunkStart(j) == j * BUFFER_WIDTH

ChunkLen(j, len) ==
    IF len - ChunkStart(j) < BUFFER_WIDTH THEN len - ChunkStart(j)
    ELSE BUFFER_WIDTH

\* Camera positions and headings: Camera::new looks down -z.
Cameras ==
    { Camera(Vec3(0, 2000, 5000), -90, 0),
      Camera(Vec3(100, 2000, 5000), 180, 0) }

RenderScenes == {Pick({1, 2, 3}, Len(LitPool)), Pick({2, 4}, Len(LitPool))}

\* ------------------------------------------------- a sphere and a ray

\* Sphere radii are 1 .. MaxRadius times RadiusStep thousandths.
MaxRadius == 2
\* Half a unit, in thousandths; a fifth of it is a whole number.
RadiusStep == Milli \div 2

Spheres == {Sphere(Vec3(0, 0, 0), k * RadiusStep, MatRed) : k \in 1..MaxRadius}

\* Rays along the z axis either way, at a distance from the axis of 0, one
\* radius (tangent) or 6/5 of a radius (missing), starting before the sphere,
\* on its surface, inside it, at its centre, and behind it.
SphereRays(s) ==
    LET fifth == s.radius \div 5
    IN  {RayNew(Vec3(off * fifth, 0, dz * fifth), Vec3(0, 0, d)) :
            off \in {0, 5, 6}, dz \in {-10, -6, -5, -3, 0, 3, 5, 6, 10}, d \in {-1, 1}}

\* ----------------------------------------------------------------- state

VARIABLES
    objects,       \* the primitive list
    ray,           \* the ray of the query, None before the query
    nodes,         \* Bvh.nodes
    prim_indices,  \* Bvh.prim_indices
    closest_t,     \* Bvh::intersect: the running closest distance
    closest_hit,   \* Bvh::intersect: the running closest hit
    stack,         \* Bvh::intersect: the 64 stack slots
    stack_ptr,     \* Bvh::intersect: the slot of the node processed next
    visited,       \* Bvh::intersect: the node index each iteration took, in order
    pc,            \* the position of the program
    light,         \* the point light
    final_color,   \* compute_pixel_color: the accumulated colour
    throughput,    \* compute_pixel_color: the throughput
    bounce,        \* compute_pixel_color: the loop variable
    calls,         \* the get_closest_intersection calls made so far
    trace,         \* what each iteration of the bounce loop started with and saw
    pixel,         \* the word compute_pixel_color returned
    hit,           \* a hit whose albedo is chosen
    albedo,        \* the albedo chosen for hit
    box,           \* an Aabb
    box_union_empty,  \* box.union(&Aabb::empty())
    empty_union_box,  \* Aabb::empty().union(&box)
    camera,        \* the camera of the frame
    buffer,        \* the framebuffer
    cursor,        \* render_frame: for each row, the column its worker writes next
    writes,        \* for each slot, the rows whose workers wrote it this frame
    sphere,        \* the sphere a ray is tested against
    sphere_hit     \* what Sphere::intersect returned for sphere and ray

bvhVars == <<nodes, prim_indices, closest_t, closest_hit, stack, stack_ptr, visited>>
shadeVars == <<light, final_color, throughput, bounce, calls, trace, pixel>>
albedoVars == <<hit, albedo>>
aabbVars == <<box, box_union_empty, empty_union_box>>
renderVars == <<camera, buffer, cursor, writes>>
sphereVars == <<sphere, sphere_hit>>

vars ==
    <<objects, ray, pc, bvhVars, shadeVars, albedoVars, aabbVars, renderVars, sphereVars>>

\* The parts of the state a run does not use stay as they start.
NoBvh ==
    /\ nodes = <<>>
    /\ prim_indices = <<>>
    /\ closest_t = F32_MAX
    /\ closest_hit = None
    /\ stack = [k \in 1..STACK_SIZE |-> 0]
    /\ stack_ptr = 0
    /\ visited = <<>>
NoShade ==
    /\ light = None
    /\ final_color = Black
    /\ throughput = Black
    /\ bounce = 0
    /\ calls = 0
    /\ trace = <<>>
    /\ pixel = None
NoAlbedo == hit = None /\ albedo = None
NoAabb == box = None /\ box_union_empty = None /\ empty_union_box = None
NoRender == camera = None /\ buffer = <<>> /\ cursor = <<>> /\ writes = <<>>
NoSphere == sphere = None /\ sphere_hit = None

TheBvh == [nodes |-> nodes, prim_indices |-> prim_indices]
Query ==
    [closest_t |-> closest_t, closest_hit |-> closest_hit, stack |-> stack,
     stack_ptr |-> stack_ptr, pc |-> pc]

SetQuery(c) ==
    /\ closest_t' = c.closest_t
    /\ closest_hit' = c.closest_hit
    /\ stack' = c.stack
    /\ stack_ptr' = c.stack_ptr
    /\ pc' = c.pc

Init ==
    /\ objects \in Scenes
    /\ ray = None
    /\ pc = "start"
    /\ NoBvh /\ NoShade /\ NoAlbedo /\ NoAabb /\ NoRender /\ NoSphere

\* let bvh = Bvh::build(&objects)
Build ==
    /\ pc = "start"
    /\ \E b \in BvhBuild(objects) :
           /\ nodes' = b.nodes
           /\ prim_indices' = b.prim_indices
    /\ pc' = "built"
    /\ UNCHANGED <<objects, ray, closest_t, closest_hit, stack, stack_ptr, visited>>
    /\ UNCHANGED <<shadeVars, albedoVars, aabbVars, renderVars, sphereVars>>

\* Bvh::build is run again on the same list and replaces the BVH.
Rebuild ==
    /\ pc = "built"
    /\ \E b \in BvhBuild(objects) :
           /\ nodes' = b.nodes
           /\ prim_indices' = b.prim_indices
    /\ pc' = "rebuilt"
    /\ UNCHANGED <<objects, ray, closest_t, closest_hit, stack, stack_ptr, visited>>
    /\ UNCHANGED <<shadeVars, albedoVars, aabbVars, renderVars, sphereVars>>

\* bvh.intersect(&ray, &objects) is entered with some ray.
IntersectBegin ==
    /\ pc = "built"
    /\ \E r \in Rays : ray' = r
    /\ SetQuery(IntersectInit)
    /\ visited' = <<>>
    /\ UNCHANGED <<objects, nodes, prim_indices>>
    /\ UNCHANGED <<shadeVars, albedoVars, aabbVars, renderVars, sphereVars>>

\* `while stack_ptr < 64 { let node_idx = stack[stack_ptr]; ...`: the loop
\* condition holds and the iteration takes the node of the top slot.
Iteration ==
    /\ pc = "loop"
    /\ stack_ptr < STACK_SIZE
    /\ visited' = Append(visited, At(stack, stack_ptr))

\* One iteration of the traversal loop.
IntersectStep ==
    /\ Iteration
    /\ SetQuery(LoopBody(Query, TheBvh, objects, ray, FALSE))
    /\ UNCHANGED <<objects, ray, nodes, prim_indices>>
    /\ UNCHANGED <<shadeVars, albedoVars, aabbVars, renderVars, sphereVars>>

Next == Build \/ Rebuild \/ IntersectBegin \/ IntersectStep

Spec == Init /\ [][Next]_vars

\* The query as it runs: `while stack_ptr < 64` is a sequential loop of the
\* calling thread, so an iteration that can be taken is taken.  The body is
\* total, so an iteration can be taken exactly when the loop condition holds,
\* and the steps that take a node are the steps of IntersectStep.
SpecRun == Init /\ [][Next]_vars /\ WF_visited(Iteration)

\* ------------------------------------------- compute_pixel_color as steps

InitShade ==
    /\ objects \in LitScenes
    /\ light \in Lights
    /\ ray = None
    /\ pc = "start"
    /\ final_color = Black
    /\ throughput = Black
    /\ bounce = 0
    /\ calls = 0
    /\ trace = <<>>
    /\ pixel = None
    /\ NoBvh /\ NoAlbedo /\ NoAabb /\ NoRender /\ NoSphere

\* compute_pixel_color is entered with a primary ray.
PixelBegin ==
    /\ pc = "start"
    /\ \E r \in PrimaryRays : ray' = r
    /\ final_color' = Black
    /\ throughput' = Vec3(Milli, Milli, Milli)
    /\ bounce' = 0
    /\ pc' = "loop"
    /\ UNCHANGED <<objects, light, calls, trace, pixel>>
    /\ UNCHANGED <<bvhVars, albedoVars, aabbVars, renderVars, sphereVars>>

\* One iteration of the bounce loop.
Bounce ==
    /\ pc = "loop"
    /\ LoopContinues(bounce)
    /\ LET r == Shade(ray, final_color, throughput, bounce, objects, light)
       IN  /\ final_color' = r.final_color
           /\ throughput' = r.throughput
           /\ ray' = r.ray
           /\ calls' = calls + r.calls
           /\ trace' = Append(trace, [ray |-> ray, final_color |-> final_color,
                                      throughput |-> throughput,
                                      bounce |-> bounce, saw |-> r])
           /\ bounce' = IF r.continues THEN bounce + 1 ELSE bounce
           /\ pc' = IF r.continues THEN "loop" ELSE "break"
    /\ UNCHANGED <<objects, light, pixel>>
    /\ UNCHANGED <<bvhVars, albedoVars, aabbVars, renderVars, sphereVars>>

\* The loop is over: final_color.to_u32_gamma() is returned.
Return ==
    /\ pc = "break" \/ (pc = "loop" /\ ~LoopContinues(bounce))
    /\ pixel' = Some(ToU32Gamma(final_color))
    /\ pc' = "returned"
    /\ UNCHANGED <<objects, ray, light, final_color, throughput, bounce, calls, trace>>
    /\ UNCHANGED <<bvhVars, albedoVars, aabbVars, renderVars, sphereVars>>

NextShade == PixelBegin \/ Bounce \/ Return

SpecShade == InitShade /\ [][NextShade]_vars

\* ------------------------------------------------ the checkerboard albedo

InitAlbedo ==
    /\ hit \in CheckerHits
    /\ albedo = None
    /\ objects = <<>>
    /\ ray = None
    /\ pc = "start"
    /\ NoBvh /\ NoShade /\ NoAabb /\ NoRender /\ NoSphere

\* compute_pixel_color chooses the albedo of the hit.
ChooseAlbedo ==
    /\ pc = "start"
    /\ albedo' = Some(Albedo(hit))
    /\ pc' = "chosen"
    /\ UNCHANGED <<objects, ray, hit>>
    /\ UNCHANGED <<bvhVars, shadeVars, aabbVars, renderVars, sphereVars>>

NextAlbedo == ChooseAlbedo

SpecAlbedo == InitAlbedo /\ [][NextAlbedo]_vars

\* ------------------------------------------------------------ Aabb::union

InitAabb ==
    /\ box \in Boxes
    /\ box_union_empty = None
    /\ empty_union_box = None
    /\ objects = <<>>
    /\ ray = None
    /\ pc = "start"
    /\ NoBvh /\ NoShade /\ NoAlbedo /\ NoRender /\ NoSphere

\* box.union(&Aabb::empty()) and Aabb::empty().union(&box)
UnionWithEmpty ==
    /\ pc = "start"
    /\ box_union_empty' = AabbUnion(box, AabbEmpty)
    /\ empty_union_box' = AabbUnion(AabbEmpty, box)
    /\ pc' = "united"
    /\ UNCHANGED <<objects, ray, box>>
    /\ UNCHANGED <<bvhVars, shadeVars, albedoVars, renderVars, sphereVars>>

NextAabb == UnionWithEmpty

SpecAabb == InitAabb /\ [][NextAabb]_vars

\* ------------------------------------------------ render_frame as steps

InitRender ==
    /\ objects \in RenderScenes
    /\ light = PointLight(OnAxis(9000), Vec3(482, 169, 552), 8000)
    /\ camera \in Cameras
    /\ buffer = [k \in 1..(BUFFER_WIDTH * BUFFER_HEIGHT) |-> 0]
    /\ cursor = <<>>
    /\ writes = <<>>
    /\ ray = None
    /\ pc = "idle"
    /\ final_color = Black
    /\ throughput = Black
    /\ bounce = 0
    /\ calls = 0
    /\ trace = <<>>
    /\ pixel = None
    /\ NoBvh /\ NoAlbedo /\ NoAabb /\ NoSphere

\* render_frame is entered: the buffer is split into row chunks, one worker
\* each.
RenderBegin ==
    /\ pc = "idle"
    /\ cursor' = [j \in 1..NumChunks(Len(buffer)) |-> 0]
    /\ writes' = [k \in 1..Len(buffer) |-> <<>>]
    /\ pc' = "rendering"
    /\ UNCHANGED <<objects, ray, camera, buffer>>
    /\ UNCHANGED <<bvhVars, shadeVars, albedoVars, aabbVars, sphereVars>>

\* The worker of row j writes its next pixel.
WritePixel(j) ==
    /\ pc = "rendering"
    /\ At(cursor, j) < ChunkLen(j, Len(buffer))
    /\ LET i == At(cursor, j)
           slot == ChunkStart(j) + i
       IN  /\ buffer' = SetAt(buffer, slot,
                              ComputePixelColor(PrimaryRay(i, j, camera),
                                                objects, light))
           /\ writes' = SetAt(writes, slot, Append(At(writes, slot), j))
           /\ cursor' = SetAt(cursor, j, i + 1)
    /\ UNCHANGED <<objects, ray, pc, camera>>
    /\ UNCHANGED <<bvhVars, shadeVars, albedoVars, aabbVars, sphereVars>>

\* Every worker has finished its row: for_each returns and the frame is
\* shown.
RenderEnd ==
    /\ pc = "rendering"
    /\ \A j \in 0..(Len(cursor) - 1) : At(cursor, j) = ChunkLen(j, Len(buffer))
    /\ pc' = "shown"
    /\ UNCHANGED <<objects, ray, camera, buffer, cursor, writes>>
    /\ UNCHANGED <<bvhVars, shadeVars, albedoVars, aabbVars, sphereVars>>

\* camera.update(&window), before the next frame.
CameraUpdate ==
    /\ pc = "shown"
    /\ \E c \in Cameras : camera' = c
    /\ pc' = "idle"
    /\ UNCHANGED <<objects, ray, buffer, cursor, writes>>
    /\ UNCHANGED <<bvhVars, shadeVars, albedoVars, aabbVars, sphereVars>>

NextRender ==
    \/ RenderBegin
    \/ \E j \in 0..(Len(cursor) - 1) : WritePixel(j)
    \/ RenderEnd
    \/ CameraUpdate

SpecRender == InitRender /\ [][NextRender]_vars

\* ----------------------------------------------- Sphere::intersect alone

InitSphere ==
    /\ sphere \in Spheres
    /\ ray \in SphereRays(sphere)
    /\ sphere_hit = None
    /\ objects = <<>>
    /\ pc = "start"
    /\ NoBvh /\ NoShade /\ NoAlbedo /\ NoAabb /\ NoRender

\* sphere.intersect(&ray)
SphereQuery ==
    /\ pc = "start"
    /\ sphere_hit' = SphereIntersect(sphere, ray)
    /\ pc' = "returned"
    /\ UNCHANGED <<objects, ray, sphere>>
    /\ UNCHANGED <<bvhVars, shadeVars, albedoVars, aabbVars, renderVars>>

SpecSphere == InitSphere /\ [][SphereQuery]_vars

\* ------------------------------------------------ claims on the BVH query

\* The whole query run to its end from state c.
RECURSIVE RunQuery(_, _, _, _, _)
RunQuery(c, bvh, objs, r, far_first) ==
    IF c.pc # "loop" \/ c.stack_ptr >= STACK_SIZE THEN c
    ELSE RunQuery(LoopBody(c, bvh, objs, r, far_first), bvh, objs, r, far_first)

\* What the query returns when two reachable children are visited farther
\* first.
OppositeOrder == RunQuery(IntersectInit, TheBvh, objects, ray, TRUE)

\* What the brute-force scan returns.
BruteForce == ScanObjects(objects, Len(objects), ray)

\* The distance of the ray's entry into the box of node i.
NodeDist(i) == AabbIntersect(At(nodes, i).aabb, ray)

\* C1: when the query has returned, its result is the result of the
\* brute-force scan of the list in index order: both none, or the same hit
\* (point, normal, material).
C1_BvhEqualsBruteForce ==
    pc = "done" => closest_hit = GetClosestIntersection(ray, objects)

C3_SingleRootLeaf ==
    (pc # "start" /\ Len(objects) <= 1) =>
        /\ Len(nodes) = 1
        /\ At(nodes, 0).count > 0
        /\ At(nodes, 0).left_first = 0
        /\ At(nodes, 0).count = Len(objects)
        /\ prim_indices = [i \in 1..Len(objects) |-> i - 1]

\* C4: the query never indexes outside nodes, prim_indices or the primitive
\* list, and never writes past the last stack slot.
C4_NoOutOfBounds == pc # "panic"

\* ------------------------------------------------------ claims on build

\* C5: a second run of Bvh::build on the same list returns the node array
\* and the permutation array of the first run.
C5_RebuildIsIdentical ==
    [][pc = "built" /\ pc' = "rebuilt" =>
           nodes' = nodes /\ prim_indices' = prim_indices]_vars

\* The range the root covers was sorted on `axis` and two of its primitives
\* have the same centroid coordinate there.
TieOnRootAxis ==
    LET axis == SplitAxis(At(nodes, 0).aabb)
        c(i) == LET b == ObjectAabb(objects[i])
                IN  AxisVal(BvhPrimitive(i - 1, b,
                        LET sum == VAdd(b.min, b.max)
                        IN Vec3(FHalf(sum.x), FHalf(sum.y), FHalf(sum.z))), axis)
    IN  \E i, j \in 1..Len(objects) : i < j /\ objects[i] # objects[j] /\ c(i) = c(j)

\* C5 witness: the list was built twice, its root range was sorted, and the
\* sort had equal centroid coordinates to order.
C5_Witness ==
    /\ pc = "rebuilt"
    /\ Len(objects) >= 3
    /\ At(nodes, 0).count = 0
    /\ TieOnRootAxis

\* ------------------------------------------------ claims on render_frame

\* The frame the sequential render stores: rows in order, columns in order.
RECURSIVE SequentialFrame(_, _)
SequentialFrame(buf, k) ==
    IF k = 0 THEN buf
    ELSE LET slot == k - 1
         IN  SetAt(SequentialFrame(buf, k - 1), slot,
                   ComputePixelColor(
                       PrimaryRay(slot % BUFFER_WIDTH, slot \div BUFFER_WIDTH, camera),
                       objects, light))

\* C6: during a frame no slot is written twice, a slot is written by the
\* worker of its row only and holds the value of the sequential render; when
\* the frame is complete every slot has been written once and the buffer is
\* the sequential render's; rendering changes neither scene, camera nor light.
C6_RowsWriteDisjointSlots ==
    /\ [](pc \in {"rendering", "shown"} =>
            LET sequential == SequentialFrame(buffer, Len(buffer))
            IN  /\ \A slot \in 0..(Len(buffer) - 1) :
                      /\ Len(At(writes, slot)) <= 1
                      /\ Len(At(writes, slot)) = 1 =>
                             /\ At(writes, slot)[1] = slot \div BUFFER_WIDTH
                             /\ At(buffer, slot) = At(sequential, slot)
                      /\ pc = "shown" => Len(At(writes, slot)) = 1
                /\ pc = "shown" => buffer = sequential)
    /\ [][pc = "rendering" =>
            objects' = objects /\ camera' = camera /\ light' = light]_vars

\* C6 witness: two row workers are both part-way through their rows, the
\* later row ahead of the earlier one.
C6_Witness ==
    /\ pc = "rendering"
    /\ At(cursor, 0) > 0
    /\ At(cursor, 1) > At(cursor, 0)
    /\ At(cursor, 1) < BUFFER_WIDTH

\* --------------------------------------------------- claims on the shading

Last == trace[Len(trace)]
Shaded == trace # <<>> /\ IsSome(Last.saw.hit)
LastHit == Unwrap(Last.saw.hit)

\* The shadow ray of a hit: from the hit point moved off the surface, towards
\* the light.
ShadowRayOf(h) ==
    Ray(VAdd(h.point, VScale(h.normal, RAY_OFFSET)),
        Normalize(VSub(light.position, h.point)))

\* The position in objs of the object a ray meets first (the earliest in the
\* list among equals), 0 when it meets none.
NearestIndex(objs, r) ==
    LET met == {i \in 1..Len(objs) : IsSome(ObjectIntersect(objs[i], r))}
        t(i) == Unwrap(ObjectIntersect(objs[i], r)).t
    IN  IF met = {} THEN 0
        ELSE CHOOSE i \in met :
                 \A k \in met : t(i) < t(k) \/ (t(i) = t(k) /\ i <= k)

\* The nearest hit of the shadow ray of h lies closer to the shadow ray's
\* origin than the light lies to h, and its material emits nothing.
Occluded(objs, h) ==
    LET r == ShadowRayOf(h)
        i == NearestIndex(objs, r)
        o == Unwrap(ObjectIntersect(objs[i], r))
    IN  /\ i # 0
        /\ o.t * o.t < LenSq(VSub(light.position, h.point))
        /\ o.mat.emission = Black

Without(objs, i) == SubSeq(objs, 1, i - 1) \o SubSeq(objs, i + 1, Len(objs))

\* The list without the occluder of the last hit.
Cleared == Without(objects, NearestIndex(objects, ShadowRayOf(LastHit)))

\* The last iteration run again on the list without the occluder.
Unoccluded ==
    Shade(Last.ray, Last.final_color, Last.throughput, Last.bounce, Cleared, light)

NotDarker(a, b) == a.x >= b.x /\ a.y >= b.y /\ a.z >= b.z
Brighter(a, b) == NotDarker(a, b) /\ a # b

WentOn(e) == IsSome(e.saw.hit) /\ Unwrap(e.saw.hit).material.reflectivity # 0
\* The iteration missed, or hit a surface of zero reflectance.
Stopped(e) ==
    ~IsSome(e.saw.hit) \/ Unwrap(e.saw.hit).material.reflectivity = 0

\* C10: the loop runs at most MAX_BOUNCES iterations; every iteration but
\* the last hit a reflecting surface; the loop is left early exactly at an
\* iteration that missed or hit zero reflectance; an iteration that missed
\* added the background term, the others none; and once the loop is left no
\* nearest-hit query is made.
C10_BouncesBounded ==
    /\ [](/\ Len(trace) <= MAX_BOUNCES
          /\ \A k \in 1..(Len(trace) - 1) : WentOn(trace[k])
          /\ (pc = "loop" /\ trace # <<>>) => WentOn(Last)
          /\ pc = "break" => Stopped(Last)
          /\ pc = "returned" =>
                 trace # <<>> /\ (Stopped(Last) \/ Len(trace) = MAX_BOUNCES)
          /\ \A k \in 1..Len(trace) :
                 trace[k].saw.final_color =
                     IF IsSome(trace[k].saw.hit)
                     THEN VAdd(trace[k].final_color,
                               VAdd(MulVec(trace[k].throughput,
                                           Unwrap(trace[k].saw.hit).material.emission),
                                    trace[k].saw.direct))
                     ELSE VAdd(trace[k].final_color,
                               MulVec(trace[k].throughput,
                                      VScaleM(Background, PowHalf(k - 1)))))
    /\ [][(pc = "break" \/ pc = "returned") => calls' = calls]_vars

\* C10 witness: the loop ran MAX_BOUNCES iterations, the last one still on a
\* reflecting surface, and returned.
C10_Witness ==
    /\ pc = "returned"
    /\ Len(trace) = MAX_BOUNCES
    /\ WentOn(Last)

\* ---------------------------------------------- claims on the checkerboard

\* The integer tile coordinate of v: the n with n <= v < n + 1 in units.
TileOf(v) ==
    CHOOSE n \in (-MaxTile - 1)..(MaxTile + 1) :
        n * Milli <= v /\ v < (n + 1) * Milli
OddTile(h) == (TileOf(h.point.x) + TileOf(h.point.z)) % 2 = 1
SameTile(a, b) ==
    TileOf(a.point.x) = TileOf(b.point.x) /\ TileOf(a.point.z) = TileOf(b.point.z)
EdgeSharing(a, b) ==
    Abs(TileOf(a.point.x) - TileOf(b.point.x))
        + Abs(TileOf(a.point.z) - TileOf(b.point.z)) = 1

\* C8: for a checkered material the albedo chosen is the dark override
\* exactly when the tile coordinates sum to an odd number, of either sign, and
\* the material's own albedo otherwise; hits of the same tile get the same
\* albedo and hits of tiles sharing an edge get different ones.
C8_Checkerboard ==
    (pc = "chosen" /\ hit.material.checkered) =>
        /\ Unwrap(albedo) = DarkAlbedo <=> OddTile(hit)
        /\ ~OddTile(hit) => Unwrap(albedo) = hit.material.albedo
        /\ \A h \in CheckerHits :
               h.material = hit.material =>
                   /\ SameTile(h, hit) => Albedo(h) = Unwrap(albedo)
                   /\ EdgeSharing(h, hit) => Albedo(h) # Unwrap(albedo)

\* C8 witness: a checkered hit with a negative x and an odd tile sum got the
\* dark override.
C8_Witness ==
    /\ pc = "chosen"
    /\ hit.material.checkered
    /\ hit.point.x < 0
    /\ OddTile(hit)
    /\ albedo = Some(DarkAlbedo)

\* ----------------------------------------------------- claims on the boxes

\* C9: the union of a box with the empty box, on either side, has the
\* corners of the box.
C9_EmptyIsUnionIdentity ==
    pc = "united" =>
        /\ box_union_empty.min = box.min /\ box_union_empty.max = box.max
        /\ empty_union_box.min = box.min /\ empty_union_box.max = box.max

\* C9 witness: a finite box of positive extent was united with the empty box.
C9_Witness ==
    /\ pc = "united"
    /\ box = AabbOf(Vec3(-Milli, -Milli, -Milli), Vec3(Milli, Milli, Milli))
    /\ box_union_empty = box


\* ------------------------------------------ claims on the traversal loop

\* No node index occurs twice in the sequence q.
NoRepeat(q) == \A i, j \in 1..Len(q) : i # j => q[i] # q[j]

\* C11: on a BVH built from at least one primitive, no node is taken from
\* the stack and processed twice during a query, and every query that has
\* entered the loop leaves it by the break of the empty stack.
C11_TraversalTerminates ==
    /\ [](Len(objects) >= 1 => NoRepeat(visited))
    /\ (pc = "loop" /\ Len(objects) >= 1) ~> (pc = "done")

\* C11 witness: a finished query on a tree of at least five nodes that went
\* down into both children of the root and processed at least five nodes.
C11_Witness ==
    /\ pc = "done"
    /\ Len(nodes) >= 5
    /\ Len(visited) >= 5
    /\ \E i, j \in 1..Len(visited) : visited[i] = 1 /\ visited[j] = 2


\* The node whose children are i and its sibling.
ParentOf(i) ==
    CHOOSE p \in 0..(Len(nodes) - 1) :
        At(nodes, p).count = 0 /\ (At(nodes, p).left_first = i \/ At(nodes, p).left_first + 1 = i)

\* The number of edges from the root to node i.
RECURSIVE Depth(_)
Depth(i) == IF i = 0 THEN 0 ELSE 1 + Depth(ParentOf(i))

\* The greatest depth of a node.
Height ==
    CHOOSE h \in 0..Len(nodes) :
        /\ \E i \in 0..(Len(nodes) - 1) : Depth(i) = h
        /\ \A i \in 0..(Len(nodes) - 1) : Depth(i) <= h

\* ceil(log2(n)) for n >= 1.
RECURSIVE CeilLog2(_)
CeilLog2(n) == IF n <= 1 THEN 0 ELSE 1 + CeilLog2((n + 1) \div 2)

\* The node index the next iteration takes.
Current == At(stack, stack_ptr)

\* The slots 0 .. stack_ptr of the stack after the step hold node i.
LiveAfter(i) == \E k \in 0..stack_ptr' : At(stack', k) = i

\* The iteration about to run enters an internal node.
EntersInternal ==
    /\ At(nodes, Current).count = 0
    /\ Enters(NodeDist(Current), closest_t)

\* C12: during a query on a BVH built from N >= 1 primitives, stack_ptr is at
\* most the depth of the node about to be processed, which is at most the
\* height of the tree, which is at most ceil(log2(N)); no write goes past the
\* 64 slots; an iteration leaves the slots below stack_ptr as they are, puts
\* every reachable child of an entered internal node into a live slot, gives
\* up at most one slot, and the loop is left only from slot 0.
C12_StackWithinDepth ==
    /\ []((pc = "loop" /\ Len(objects) >= 1) =>
            /\ stack_ptr <= Depth(Current)
            /\ Depth(Current) <= Height
            /\ Height <= CeilLog2(Len(objects))
            /\ stack_ptr < STACK_SIZE)
    /\ []((pc = "panic") => Len(objects) = 0)
    /\ [][(pc = "loop" /\ Len(objects) >= 1) =>
            /\ \A k \in 0..(stack_ptr - 1) : At(stack', k) = At(stack, k)
            /\ EntersInternal =>
                   \A child \in {At(nodes, Current).left_first, At(nodes, Current).left_first + 1} :
                       Reachable(NodeDist(child)) => LiveAfter(child)
            /\ stack_ptr' >= stack_ptr - 1
            /\ pc' = "done" => stack_ptr = 0]_vars

\* C12 witness: the query is about to process a node of depth 2 from slot 2,
\* with two nodes pending below it.
C12_Witness ==
    /\ pc = "loop"
    /\ stack_ptr = 2
    /\ Depth(Current) = 2
    /\ Height = 2


\* ------------------------------------------- claims on the built tree

\* The indices of the node array.
NodeIds == 0..(Len(nodes) - 1)

\* The nodes the traversal scans as leaves.
Leaves == {i \in NodeIds : At(nodes, i).count > 0}

\* The positions of prim_indices.
Positions == 0..(Len(objects) - 1)

\* The leaves whose range holds position k.
OwnersOf(k) ==
    {i \in Leaves : k >= At(nodes, i).left_first /\ k < At(nodes, i).left_first + At(nodes, i).count}

\* C13: after Bvh::build on N primitives prim_indices has N entries and
\* every index 0..N-1 occurs in it; the leaf ranges lie in [0, N), and every
\* position, hence every primitive index, is in the range of exactly one
\* leaf.
C13_LeavesPartitionPrimitives ==
    pc \in {"built", "rebuilt"} =>
        /\ Len(prim_indices) = Len(objects)
        /\ {At(prim_indices, k) : k \in Positions} = Positions
        /\ \A i \in Leaves :
               /\ At(nodes, i).left_first >= 0
               /\ At(nodes, i).left_first + At(nodes, i).count <= Len(objects)
        /\ \A k \in Positions : Cardinality(OwnersOf(k)) = 1
        /\ \A p \in Positions :
               Cardinality({i \in Leaves :
                   \E k \in Positions : i \in OwnersOf(k) /\ At(prim_indices, k) = p}) = 1

\* C13 witness: a tree of three leaves built from five primitives whose sort
\* moved a primitive away from its list position.
C13_Witness ==
    /\ pc = "built"
    /\ Len(objects) = 5
    /\ Cardinality(Leaves) = 3
    /\ \E k \in Positions : At(prim_indices, k) # k


\* The nodes that have children.
Internal == {i \in NodeIds : At(nodes, i).count = 0}

\* The indices of the two children of internal node i.
LeftOf(i) == At(nodes, i).left_first
RightOf(i) == At(nodes, i).left_first + 1

\* The nodes that have i as a child.
ParentsOf(i) == {p \in Internal : LeftOf(p) = i \/ RightOf(p) = i}

\* The number of primitives in the range node i covers.
RECURSIVE Covered(_)
Covered(i) ==
    IF At(nodes, i).count > 0 THEN At(nodes, i).count
    ELSE Covered(LeftOf(i)) + Covered(RightOf(i))

\* C14: after Bvh::build on N >= 1 primitives every node is a leaf with
\* count 1 or 2 or has count 0 and two children at left_first and
\* left_first + 1, inside the node array and after the node itself; the root
\* is no node's child and every other node is the child of exactly one node;
\* the root covers the N primitives, and a node with children covers more
\* than 2 primitives, floor(n / 2) of them in the left child and the rest in
\* the right child, neither empty.
C14_WellFormedTree ==
    (pc \in {"built", "rebuilt"} /\ Len(objects) >= 1) =>
        /\ Len(nodes) >= 1
        /\ \A i \in NodeIds : At(nodes, i).count \in {0, 1, 2}
        /\ \A i \in Internal :
               /\ LeftOf(i) > i
               /\ RightOf(i) < Len(nodes)
        /\ ParentsOf(0) = {}
        /\ \A i \in NodeIds \ {0} : Cardinality(ParentsOf(i)) = 1
        /\ Covered(0) = Len(objects)
        /\ \A i \in Internal :
               /\ Covered(i) > 2
               /\ Covered(LeftOf(i)) = Covered(i) \div 2
               /\ Covered(RightOf(i)) = Covered(i) - Covered(i) \div 2
               /\ Covered(LeftOf(i)) >= 1
               /\ Covered(RightOf(i)) >= 1

\* C14 witness: a tree built from five primitives whose root has a leaf of
\* two on the left and, on the right, a node split into a leaf of one and a
\* leaf of two.
C14_Witness ==
    /\ pc = "built"
    /\ Len(objects) = 5
    /\ Len(nodes) = 5
    /\ \E i \in Internal \ {0} :
           At(nodes, LeftOf(i)).count = 1 /\ At(nodes, RightOf(i)).count = 2


\* The first position of prim_indices in the range node i covers.
RECURSIVE FirstOf(_)
FirstOf(i) ==
    IF At(nodes, i).count > 0 THEN At(nodes, i).left_first ELSE FirstOf(LeftOf(i))

\* The box of the primitive at position k of prim_indices.
BoxAt(k) == ObjectAabb(At(objects, At(prim_indices, k)))

\* The union of the boxes of the primitives at positions first .. first + n - 1.
RECURSIVE UnionOfBoxes(_, _)
UnionOfBoxes(first, n) ==
    IF n = 0 THEN AabbEmpty
    ELSE AabbUnion(UnionOfBoxes(first, n - 1), BoxAt(first + n - 1))

\* Box `inner` lies inside box `outer`.
Inside(inner, outer) ==
    /\ outer.min.x <= inner.min.x /\ inner.max.x <= outer.max.x
    /\ outer.min.y <= inner.min.y /\ inner.max.y <= outer.max.y
    /\ outer.min.z <= inner.min.z /\ inner.max.z <= outer.max.z

\* C15: after Bvh::build the box of every node is the union of the boxes of
\* the primitives in the range the node covers (the empty box for the root
\* of the empty list); the box of each child lies inside the box of its
\* parent, and the box of every primitive lies inside the box of every node
\* whose range holds it, from its leaf up to the root.
C15_NodeBoxIsUnionOfRange ==
    pc \in {"built", "rebuilt"} =>
        /\ Len(objects) = 0 => At(nodes, 0).aabb = AabbEmpty
        /\ Len(objects) >= 1 =>
               \A i \in NodeIds :
                   /\ At(nodes, i).aabb = UnionOfBoxes(FirstOf(i), Covered(i))
                   /\ \A k \in FirstOf(i)..(FirstOf(i) + Covered(i) - 1) :
                          Inside(BoxAt(k), At(nodes, i).aabb)
                   /\ i \in Internal =>
                          /\ Inside(At(nodes, LeftOf(i)).aabb, At(nodes, i).aabb)
                          /\ Inside(At(nodes, RightOf(i)).aabb, At(nodes, i).aabb)

\* C15 witness: a tree built from five primitives in which a child of the
\* root has children of its own and a box smaller than the root's.
C15_Witness ==
    /\ pc = "built"
    /\ Len(objects) = 5
    /\ \E i \in Internal \ {0} :
           /\ At(nodes, i).aabb # At(nodes, 0).aabb
           /\ At(nodes, LeftOf(i)).aabb # At(nodes, i).aabb


\* ------------------------------------- claims on the order of descent

\* Node j is node a or lies below it.
RECURSIVE Below(_, _)
Below(j, a) == j = a \/ (j # 0 /\ Below(ParentOf(j), a))

\* The iterations (positions of visited) that took node i.
TakenAt(i) == {a \in 1..Len(visited) : visited[a] = i}

\* Every iteration that took `near` or a node below it came before every
\* iteration that took `far`, and `far` was not taken without `near`.
SubtreeBefore(near, far) ==
    /\ TakenAt(far) # {} => TakenAt(near) # {}
    /\ \A b \in TakenAt(far) :
           \A a \in 1..Len(visited) : Below(visited[a], near) => a < b

\* What the iteration about to run on an entered internal node leaves on the
\* stack, given the box distances of its two children.
DescentStep(left_idx, right_idx, dist_l, dist_r) ==
    /\ (Reachable(dist_l) /\ Reachable(dist_r)) =>
           /\ stack_ptr' = stack_ptr + 1
           /\ {At(stack', stack_ptr), At(stack', stack_ptr')} = {left_idx, right_idx}
           /\ FLt(dist_l, dist_r) => At(stack', stack_ptr') = left_idx
           /\ FLt(dist_r, dist_l) => At(stack', stack_ptr') = right_idx
    /\ (Reachable(dist_l) /\ ~Reachable(dist_r)) =>
           /\ stack_ptr' = stack_ptr
           /\ At(stack', stack_ptr) = left_idx
    /\ (~Reachable(dist_l) /\ Reachable(dist_r)) =>
           /\ stack_ptr' = stack_ptr
           /\ At(stack', stack_ptr) = right_idx
    /\ (~Reachable(dist_l) /\ ~Reachable(dist_r)) =>
           /\ stack' = stack
           /\ IF stack_ptr = 0 THEN pc' = "done" /\ stack_ptr' = 0
              ELSE pc' = "loop" /\ stack_ptr' = stack_ptr - 1

\* C16: on a BVH built from at least one primitive, an iteration that enters
\* an internal node with both children reachable puts the farther child in
\* the current slot and the nearer one in the slot above, which is processed
\* next; with one child reachable only that child replaces the node; with
\* none the iteration pops.  So every node processed, the root apart, has a
\* reachable box, and where the two children of a node have different box
\* distances and the farther one was processed, the nearer one and all the
\* processed nodes below it were processed before it.
C16_NearerChildFirst ==
    /\ [][(pc = "loop" /\ Len(objects) >= 1 /\ EntersInternal) =>
            DescentStep(LeftOf(Current), RightOf(Current),
                        NodeDist(LeftOf(Current)), NodeDist(RightOf(Current)))]_vars
    /\ []((pc \in {"loop", "done"} /\ Len(objects) >= 1) =>
            /\ \A a \in 1..Len(visited) :
                   visited[a] # 0 => Reachable(NodeDist(visited[a]))
            /\ \A i \in Internal :
                   /\ (TakenAt(RightOf(i)) # {}
                         /\ FLt(NodeDist(LeftOf(i)), NodeDist(RightOf(i)))) =>
                          SubtreeBefore(LeftOf(i), RightOf(i))
                   /\ (TakenAt(LeftOf(i)) # {}
                         /\ FLt(NodeDist(RightOf(i)), NodeDist(LeftOf(i)))) =>
                          SubtreeBefore(RightOf(i), LeftOf(i)))

\* C16 witness: a finished query that processed both children of the root,
\* the right one nearer than the left one and with children of its own, one
\* of which was processed too.
C16_Witness ==
    /\ pc = "done"
    /\ Len(nodes) = 5
    /\ FLt(NodeDist(2), NodeDist(1))
    /\ TakenAt(1) # {} /\ TakenAt(2) # {}
    /\ 2 \in Internal
    /\ TakenAt(LeftOf(2)) # {}


\* ------------------------------------------- claims on Sphere::intersect

\* The coefficients of the ray-sphere quadratic a t^2 + b t + c = 0.
QuadA == Dot(ray.direction, ray.direction)
QuadB == 2 * Dot(VSub(ray.origin, sphere.center), ray.direction)
QuadC ==
    Dot(VSub(ray.origin, sphere.center), VSub(ray.origin, sphere.center))
    - sphere.radius * sphere.radius

\* The roots of the quadratic that reach the 0.001 guard.  The rays of
\* SphereRays have whole roots, none farther than four radii.
ValidRoots ==
    {t \in T_MIN..(4 * sphere.radius) : QuadA * t * t + QuadB * t + QuadC = 0}

\* The smallest valid root.
NearestValidRoot == CHOOSE t \in ValidRoots : \A u \in ValidRoots : t <= u

\* C17: Sphere::intersect returns a hit at the smallest root that is at least
\* 0.001 whenever there is one, and no hit when there is none (negative
\* discriminant, or both roots below 0.001).
C17_NearestValidRoot ==
    pc = "returned" =>
        IF ValidRoots = {} THEN sphere_hit = None
        ELSE IsSome(sphere_hit) /\ Unwrap(sphere_hit).t = NearestValidRoot

=============================================================================
